---- MODULE Spec2Model ----
(***************************************************************************)
(* Model of the Bio.PDB benchmark scripts:                                 *)
(*   benchmark_parsers.py      (summarize_structure, resumable batch loop) *)
(*   benchmark_PDBParser.py    (batch loop, unguarded cleanup)             *)
(*   benchmark_mmCIFParser.py  (batch loop, unguarded cleanup)             *)
(*                                                                         *)
(* Spec    : the batch loops of the three scripts over a folder.           *)
(* SpecFP  : summarize_structure applied to a bounded set of structures.   *)
(***************************************************************************)
EXTENDS Integers, Sequences, FiniteSets, TLC

VARIABLES
    structure,   \* SpecFP: the argument of summarize_structure
    summary,     \* SpecFP: <<>> before the call, <<result>> after it
    script,      \* which of the three scripts runs
    no_continue, \* args.no_continue of the current run
    disk,        \* files under args.folder: <<dir, stem, suffix>>
    temp,        \* TRUE iff the transient file (io.temp, temp.pdb, temp.cif) exists
    flist,       \* the work queue (sequence of input paths)
    idx,         \* enumerate(flist, start=1) index of the current item
    pc,          \* position in main()
    s,           \* <<>> or <<structure>>: the parsed structure of the item
    data,        \* <<>> or <<dict>>: summary of s
    exc,         \* the exception caught by `except Exception as err'
    status,      \* 'ok' / 'failed' of benchmark_parsers.py
    lastWrite,   \* the last artifact written: path and text
    log,         \* progress lines of the current run
    run,         \* number of runs started
    data2,       \* <<>> or <<dict>>: summary of the re-parsed structure
    disk0,       \* history: the folder as main() found it when the run started
    attempts,    \* history: input path -> times its try block was entered this run
    raised,      \* history: inputs whose try block raised during this run
    wrote        \* history: artifact paths written during this run

fpvars == <<structure, summary>>
batchvars == <<script, no_continue, disk, temp, flist, idx, pc, s, data, exc,
               status, lastWrite, log, run, data2, disk0, attempts, raised, wrote>>
vars == <<structure, summary, script, no_continue, disk, temp, flist, idx, pc,
          s, data, exc, status, lastWrite, log, run, data2, disk0, attempts,
          raised, wrote>>

(***************************************************************************)
(* Bounds                                                                  *)
(***************************************************************************)
MaxModels == 2
MaxInputs == 3
MaxRuns == 2

(***************************************************************************)
(* Generic helpers                                                         *)
(***************************************************************************)
RECURSIVE Sum(_)
Sum(q) == IF q = <<>> THEN 0 ELSE Head(q) + Sum(Tail(q))

\* int(bool): Python's int(True) == 1, int(False) == 0
int(b) == IF b THEN 1 ELSE 0

\* str.strip() on the one-character codes used here
strip(c) == IF c = " " THEN "" ELSE c

SeqsUpTo(S, n) == UNION {[1..k -> S] : k \in 0..n}

(***************************************************************************)
(* Bio.PDB structure hierarchy, as far as summarize_structure reads it.    *)
(* structure = sequence of models, model = sequence of chains,             *)
(* chain = sequence of residues.  A residue has is_disordered (0, 1 or 2), *)
(* id = <<hetflag, seqnum, icode>>, its atoms (get_unpacked_list) and, for *)
(* a DisorderedResidue, its variants (disordered_get_list).                *)
(***************************************************************************)
Atom(altloc) == [altloc |-> altloc]

Residue(dis, het, icode, atoms) ==
    [is_disordered |-> dis, id |-> <<het, 1, icode>>, atoms |-> atoms,
     children |-> <<>>]

DisorderedResidue(variants) ==
    [is_disordered |-> 2, id |-> variants[1].id, atoms |-> variants[1].atoms,
     children |-> variants]

ResOrd == Residue(0, " ", " ", <<Atom(" "), Atom(" ")>>)
ResHet == Residue(1, "H", "A", <<Atom("A"), Atom("B"), Atom(" ")>>)
Group3 == DisorderedResidue(<<Residue(0, " ", " ", <<Atom(" "), Atom(" ")>>),
                              Residue(0, " ", " ", <<Atom(" "), Atom("A")>>),
                              Residue(0, "H", " ", <<Atom(" "), Atom(" ")>>)>>)
Group2 == DisorderedResidue(<<Residue(0, " ", "A", <<Atom(" ")>>),
                              Residue(0, " ", " ", <<Atom(" ")>>)>>)

\* chains, then models: none, one or several chains, with and without
\* disordered groups
ChainA == <<ResOrd>>
ChainB == <<Group3>>
ChainC == <<ResHet, Group2>>
ChainD == <<ResOrd, Group3, ResHet>>
ModelSet == {<<>>, <<ChainA>>, <<ChainB>>, <<<<>>, ChainC>>, <<ChainA, ChainB>>,
             <<ChainD, ChainC>>, <<ChainC, ChainA, ChainD>>}
Structures == SeqsUpTo(ModelSet, MaxModels)

(***************************************************************************)
(* summarize_structure                                                     *)
(***************************************************************************)
Keys == {"models", "chains", "residues", "res-icode", "res-ptmut",
         "all-atoms", "het-atoms", "altlocs"}

Return(v) == [ok |-> TRUE, exc |-> "", val |-> <<v>>]
Raise(e) == [ok |-> FALSE, exc |-> e, val |-> <<>>]

\* faulty variant of LoopModel: the chain loop walks the first model
LoopModel_first(st) == st[1]

\* `for model in structure: n_models += 1' leaves `model' bound to the last
\* model it iterated over; the chain loop then reads that binding.
LoopModel(st) == st[Len(st)]

\* lines 67-73: the list the `for child in children' loop walks
Children(resid) ==
    IF resid.is_disordered = 2 THEN resid.children ELSE <<resid>>

\* faulty variant of PtmutIncr: the increment sits inside the variant loop
PtmutIncr_perVariant(resid) ==
    IF resid.is_disordered = 2 THEN Len(resid.children) ELSE 0

\* line 68: n_ptmuts += int(is_ptmut), once per residue of the chain
PtmutIncr(resid) == int(resid.is_disordered = 2)

\* lines 79-82: the three atom counters for one child
ChildAtoms(child) ==
    [aatoms |-> Len(child.atoms),
     hatoms |-> Sum([i \in 1..Len(child.atoms) |-> int(child.id[1] # " ")]),
     altloc |-> Sum([i \in 1..Len(child.atoms) |->
                        int(strip(child.atoms[i].altloc) # "")])]

\* lines 75-82 for one residue of the chain
ResidCounts(resid) ==
    LET ch == Children(resid)
        n  == Len(ch)
    IN [ptmuts |-> PtmutIncr(resid),
        icodes |-> Sum([i \in 1..n |-> int(ch[i].id[3] # " ")]),
        resids |-> n,
        aatoms |-> Sum([i \in 1..n |-> ChildAtoms(ch[i]).aatoms]),
        hatoms |-> Sum([i \in 1..n |-> ChildAtoms(ch[i]).hatoms]),
        altloc |-> Sum([i \in 1..n |-> ChildAtoms(ch[i]).altloc])]

\* lines 66-82 for one chain
ChainCounts(chain) ==
    LET n == Len(chain)
        rc == [i \in 1..n |-> ResidCounts(chain[i])]
    IN [ptmuts |-> Sum([i \in 1..n |-> rc[i].ptmuts]),
        icodes |-> Sum([i \in 1..n |-> rc[i].icodes]),
        resids |-> Sum([i \in 1..n |-> rc[i].resids]),
        aatoms |-> Sum([i \in 1..n |-> rc[i].aatoms]),
        hatoms |-> Sum([i \in 1..n |-> rc[i].hatoms]),
        altloc |-> Sum([i \in 1..n |-> rc[i].altloc])]

summarize_structure(st) ==
    IF Len(st) = 0
    THEN Raise("UnboundLocalError")   \* `for chain in model': model never bound
    ELSE LET model == LoopModel(st)
             n == Len(model)
             cc == [i \in 1..n |-> ChainCounts(model[i])]
         IN Return(
            "models"    :> Len(st) @@
            "chains"    :> n @@
            "residues"  :> Sum([i \in 1..n |-> cc[i].resids]) @@
            "res-icode" :> Sum([i \in 1..n |-> cc[i].icodes]) @@
            "res-ptmut" :> Sum([i \in 1..n |-> cc[i].ptmuts]) @@
            "all-atoms" :> Sum([i \in 1..n |-> cc[i].aatoms]) @@
            "het-atoms" :> Sum([i \in 1..n |-> cc[i].hatoms]) @@
            "altlocs"   :> Sum([i \in 1..n |-> cc[i].altloc]))

(***************************************************************************)
(* SpecFP: summarize_structure called once on a structure of Structures    *)
(***************************************************************************)
BatchIdle ==
    /\ script = "parsers"
    /\ no_continue = FALSE
    /\ disk = {}
    /\ temp = FALSE
    /\ flist = <<>>
    /\ idx = 1
    /\ pc = "idle"
    /\ s = <<>>
    /\ data = <<>>
    /\ exc = <<>>
    /\ status = ""
    /\ lastWrite = <<>>
    /\ log = <<>>
    /\ run = 0
    /\ data2 = <<>>
    /\ disk0 = {}
    /\ attempts = <<>>
    /\ raised = {}
    /\ wrote = {}

InitFP ==
    /\ structure \in Structures
    /\ summary = <<>>
    /\ BatchIdle

CallSummarize ==
    /\ summary = <<>>
    /\ summary' = <<summarize_structure(structure)>>
    /\ UNCHANGED <<structure, batchvars>>

NextFP == CallSummarize

SpecFP == InitFP /\ [][NextFP]_vars

(***************************************************************************)
(* Reference counts of one model, by counting index tuples                 *)
(***************************************************************************)
Variants(resid) == IF resid.is_disordered = 2 THEN resid.children ELSE <<resid>>

Sites(m) == UNION {{<<c, r>> : r \in 1..Len(m[c])} : c \in 1..Len(m)}

GroupSites(m) == {p \in Sites(m) : m[p[1]][p[2]].is_disordered = 2}

OrderedSites(m) == Sites(m) \ GroupSites(m)

Resolved(m) ==
    UNION {{<<p[1], p[2], v>> : v \in 1..Len(Variants(m[p[1]][p[2]]))} : p \in Sites(m)}

VariantAt(m, q) == Variants(m[q[1]][q[2]])[q[3]]

AtomSites(m) ==
    UNION {{<<q[1], q[2], q[3], a>> : a \in 1..Len(VariantAt(m, q).atoms)} : q \in Resolved(m)}

Expected(m) ==
    "chains"    :> Len(m) @@
    "residues"  :> Cardinality(Resolved(m)) @@
    "res-icode" :> Cardinality({q \in Resolved(m) : VariantAt(m, q).id[3] # " "}) @@
    "res-ptmut" :> Cardinality(GroupSites(m)) @@
    "all-atoms" :> Cardinality(AtomSites(m)) @@
    "het-atoms" :> Cardinality({x \in AtomSites(m) :
                       VariantAt(m, <<x[1], x[2], x[3]>>).id[1] # " "}) @@
    "altlocs"   :> Cardinality({x \in AtomSites(m) :
                       VariantAt(m, <<x[1], x[2], x[3]>>).atoms[x[4]].altloc # " "})

PerModelKeys == Keys \ {"models"}

Called == summary # <<>>
Result == summary[1]
Fingerprint == Result.val[1]
OneGroup3 == << << <<Group3>> >> >>

(***************************************************************************)
(* C7: summarize_structure on a structure with zero models returns a       *)
(* fingerprint whose eight fields are all 0 and does not raise.            *)
(* (Stated as claimed; the code raises UnboundLocalError instead.)         *)
(***************************************************************************)
C7_ZeroModelsAllZero ==
    (Called /\ Len(structure) = 0) =>
        /\ Result.ok
        /\ \A k \in Keys : Fingerprint[k] = 0

(***************************************************************************)
(* C8: a disordered residue group counts once in res-ptmut, once per       *)
(* variant in residues, and all-atoms counts the atoms of every variant:   *)
(* one group of 3 variants with 2 atoms each gives residues=3,             *)
(* res-ptmut=1, all-atoms=6; in general res-ptmut is the number of         *)
(* disordered groups and residues is the number of ordered residues plus   *)
(* the total number of variants (of the model that is traversed).          *)
(***************************************************************************)
C8_DisorderedCounting ==
    (Called /\ Len(structure) > 0) =>
        LET m == structure[Len(structure)] IN
        /\ Result.ok
        /\ Fingerprint["res-ptmut"] = Cardinality(GroupSites(m))
        /\ Fingerprint["residues"] =
              Cardinality(OrderedSites(m)) +
              Sum([i \in 1..Len(m) |->
                     Sum([j \in 1..Len(m[i]) |->
                            IF m[i][j].is_disordered = 2
                            THEN Len(m[i][j].children) ELSE 0])])
        /\ Fingerprint["all-atoms"] = Cardinality(AtomSites(m))
        /\ structure = OneGroup3 =>
              /\ Fingerprint["residues"] = 3
              /\ Fingerprint["res-ptmut"] = 1
              /\ Fingerprint["all-atoms"] = 6

C8_Witness ==
    /\ Called
    /\ structure = OneGroup3
    /\ Result.ok
    /\ Fingerprint["residues"] = 3
    /\ Fingerprint["res-ptmut"] = 1
    /\ Fingerprint["all-atoms"] = 6

Scripts == {"parsers", "PDBParser", "mmCIFParser"}
\* two sub-directories and three base names: inputs may share a base name
\* across sub-directories
Dirs == {1, 2}
Stems == {1, 2, 3}
InputPaths == {<<d, n, "gz">> : d \in Dirs, n \in Stems}
Folders == {S \in SUBSET InputPaths : Cardinality(S) <= MaxInputs}

\* pathlib: PurePath.stem, PurePath.with_suffix, Path.rglob('*' + suffix)
stem(f) == f[2]
with_suffix(f, suffix) == <<f[1], f[2], suffix>>
rglob(files, suffix) == {f \in files : f[3] = suffix}

\* pathlib orders paths by their parts: directory first, then file name
PathLess(a, b) ==
    \/ a[1] < b[1]
    \/ a[1] = b[1] /\ a[2] < b[2]
    \/ a[1] = b[1] /\ a[2] = b[2] /\ a[3] # b[3] /\ a[3] = "failed"

RECURSIVE sorted(_)
sorted(S) ==
    IF S = {} THEN <<>>
    ELSE LET lo == CHOOSE x \in S : \A y \in S \ {x} : PathLess(x, y)
         IN <<lo>> \o sorted(S \ {lo})

Range(q) == {q[i] : i \in DOMAIN q}

\* {f.stem: f for f in q}: a later entry of q replaces an earlier one with
\* the same stem
StemDict(q) ==
    [k \in {stem(q[i]) : i \in DOMAIN q} |->
        q[CHOOSE i \in DOMAIN q :
            /\ stem(q[i]) = k
            /\ \A j \in DOMAIN q : stem(q[j]) = k => j <= i]]

\* benchmark_parsers.py lines 145-158
WorkQueue(files, nc) ==
    LET all == sorted(rglob(files, "gz"))
        xmllist == sorted(rglob(files, "xml"))
    IN IF ~nc /\ xmllist # <<>>
       THEN LET xmlset == StemDict(xmllist)
                fset == StemDict(all)
                remainder == DOMAIN fset \ DOMAIN xmlset
            IN sorted({fset[k] : k \in remainder})
       ELSE all

\* structures the parser may return for a file in the batch runs
Empty == <<>>
Plain == << << <<ResOrd>> >> >>
BatchCorpus == {Empty, Plain, OneGroup3}

\* benchmark_PDBParser.py / benchmark_mmCIFParser.py: the four counts
UnpackedAtoms(resid) ==
    IF resid.is_disordered = 2
    THEN Sum([v \in 1..Len(resid.children) |-> Len(resid.children[v].atoms)])
    ELSE Len(resid.atoms)

LegacyData(st) ==
    "models" :> Len(st) @@
    "chains" :> Sum([m \in 1..Len(st) |-> Len(st[m])]) @@
    "resids" :> Sum([m \in 1..Len(st) |->
                   Sum([c \in 1..Len(st[m]) |-> Len(st[m][c])])]) @@
    "atoms"  :> Sum([m \in 1..Len(st) |->
                   Sum([c \in 1..Len(st[m]) |->
                      Sum([r \in 1..Len(st[m][c]) |->
                             UnpackedAtoms(st[m][c][r])])])])

\* exceptions: the type and str(err), a format with the values it shows
Msg(fmt, args) == [fmt |-> fmt, args |-> args]
Exc(type, msg) == [type |-> type, msg |-> msg]
ParseError == Exc("ParseError", Msg("invalid input", <<>>))
WriteError == Exc("WriteError", Msg("cannot save", <<>>))
\* line 185: f'Summaries differ: {data} != {data2}'
SummariesDiffer(d1, d2) ==
    Exc("AssertionError", Msg("Summaries differ: {} != {}", <<d1, d2>>))
\* legacy scripts: `assert a == b' carries no message
BareAssertion == Exc("AssertionError", Msg("", <<>>))

\* print(err, file=f); print(traceback.format_exc(), file=f)
FailedText(e) == <<e.msg, <<"Traceback", e.type, e.msg>>>>

\* the calls of lines 172 and 183, tabulated over the structures of the batch
Summarized == [st \in BatchCorpus |-> summarize_structure(st)]
LegacySummarized == [st \in BatchCorpus |-> LegacyData(st)]

fpath == flist[idx]
IsLegacy == script \in {"PDBParser", "mmCIFParser"}

Init ==
    /\ structure = <<>>
    /\ summary = <<>>
    /\ script \in Scripts
    /\ no_continue = FALSE
    /\ disk \in Folders
    /\ temp \in BOOLEAN
    /\ flist = <<>>
    /\ idx = 1
    /\ pc = "start"
    /\ s = <<>>
    /\ data = <<>>
    /\ exc = <<>>
    /\ status = ""
    /\ lastWrite = <<>>
    /\ log = <<>>
    /\ run = 0
    /\ data2 = <<>>
    /\ disk0 = {}
    /\ attempts = <<>>
    /\ raised = {}
    /\ wrote = {}

\* main() up to the loop: benchmark_parsers.py lines 131-160
StartRun ==
    /\ script = "parsers"
    /\ pc \in {"start", "done"}
    /\ run < MaxRuns
    /\ \E nc \in BOOLEAN :
        /\ no_continue' = nc
        /\ flist' = WorkQueue(disk, nc)
    /\ idx' = 1
    /\ pc' = IF flist' = <<>> THEN "done" ELSE "parse"
    /\ run' = run + 1
    /\ log' = <<>>
    /\ attempts' = [f \in rglob(disk, "gz") |-> 0]
    /\ wrote' = {}
    /\ raised' = {}
    /\ disk0' = disk
    /\ s' = <<>> /\ data' = <<>> /\ data2' = <<>> /\ exc' = <<>>
    /\ status' = "" /\ lastWrite' = <<>>
    /\ UNCHANGED <<fpvars, script, disk, temp>>

ProgressLine == [idx |-> idx, total |-> Len(flist), path |-> fpath, status |-> status]

\* the try block was entered for fpath
Enter == attempts' = [attempts EXCEPT ![fpath] = @ + 1]

\* control reaches the except clause exactly when the try block raised
Raises == raised' = IF pc' = "except" THEN raised \cup {fpath} ELSE raised

\* benchmark_parsers.py lines 163-172: gzip.open, parser.get_structure,
\* summarize_structure
Parse ==
    /\ script = "parsers"
    /\ pc = "parse"
    /\ Enter
    /\ \/ /\ exc' = <<ParseError>>
          /\ pc' = "except"
          /\ UNCHANGED <<s, data>>
       \/ \E st \in BatchCorpus :
            LET r == Summarized[st] IN
            /\ s' = <<st>>
            /\ IF r.ok
               THEN /\ data' = r.val
                    /\ pc' = "write"
                    /\ UNCHANGED exc
               ELSE /\ exc' = <<Exc(r.exc, Msg("model", <<>>))>>
                    /\ pc' = "except"
                    /\ UNCHANGED data
    /\ Raises
    /\ UNCHANGED <<fpvars, script, no_continue, disk, temp, flist, idx, status,
                   lastWrite, log, run, wrote, data2, disk0>>

\* lines 175-179: writer.set_structure(s); writer.save('io.temp').  save may
\* raise before it creates the file or after (a partly written file).
Write ==
    /\ script = "parsers"
    /\ pc = "write"
    /\ \/ /\ temp' = TRUE
          /\ pc' = "roundtrip"
          /\ UNCHANGED exc
       \/ /\ temp' \in {temp, TRUE}
          /\ exc' = <<WriteError>>
          /\ pc' = "except"
    /\ Raises
    /\ UNCHANGED <<fpvars, script, no_continue, disk, flist, idx, s, data,
                   status, lastWrite, log, run, attempts, wrote, data2, disk0>>

\* faulty variant of Compare: the assertion is dropped
Compare_noAssert(d1, d2) == <<>>

\* line 185: assert data == data2, f'Summaries differ: {data} != {data2}'
Compare(d1, d2) == IF d1 = d2 THEN <<>> ELSE <<SummariesDiffer(d1, d2)>>

\* lines 182-185: re-parse io.temp, summarize, compare
RoundTrip ==
    /\ script = "parsers"
    /\ pc = "roundtrip"
    /\ \/ /\ exc' = <<ParseError>>
          /\ pc' = "except"
          /\ UNCHANGED data2
       \/ \E st2 \in BatchCorpus :
            LET r2 == Summarized[st2] IN
            IF r2.ok
            THEN /\ data2' = r2.val
                 /\ exc' = Compare(data[1], data2'[1])
                 /\ pc' = IF exc' = <<>> THEN "else" ELSE "except"
            ELSE /\ exc' = <<Exc(r2.exc, Msg("model", <<>>))>>
                 /\ pc' = "except"
                 /\ UNCHANGED data2
    /\ Raises
    /\ UNCHANGED <<fpvars, script, no_continue, disk, temp, flist, idx, s,
                   data, status, lastWrite, log, run, attempts, wrote, disk0>>

\* faulty variant of Except: the handler records nothing (a bare `pass')
Except_noArtifact ==
    /\ script = "parsers"
    /\ pc = "except"
    /\ status' = "failed"
    /\ pc' = "finally"
    /\ UNCHANGED <<fpvars, script, no_continue, disk, temp, flist, idx, s, data,
                   exc, lastWrite, log, run, attempts, wrote, data2, disk0, raised>>

\* faulty variant of Except: the handler falls through to the report as well
Except_alsoReport ==
    /\ script = "parsers"
    /\ pc = "except"
    /\ disk' = disk \cup {with_suffix(fpath, "failed"), with_suffix(fpath, "xml")}
    /\ wrote' = wrote \cup {with_suffix(fpath, "failed"), with_suffix(fpath, "xml")}
    /\ lastWrite' = <<[path |-> with_suffix(fpath, "failed"), text |-> FailedText(exc[1])]>>
    /\ status' = "failed"
    /\ pc' = "finally"
    /\ UNCHANGED <<fpvars, script, no_continue, temp, flist, idx, s, data, exc,
                   log, run, attempts, data2, disk0, raised>>

\* lines 187-192: except Exception as err
Except ==
    /\ script = "parsers"
    /\ pc = "except"
    /\ disk' = disk \cup {with_suffix(fpath, "failed")}
    /\ wrote' = wrote \cup {with_suffix(fpath, "failed")}
    /\ lastWrite' = <<[path |-> with_suffix(fpath, "failed"), text |-> FailedText(exc[1])]>>
    /\ status' = "failed"
    /\ pc' = "finally"
    /\ UNCHANGED <<fpvars, script, no_continue, temp, flist, idx, s, data, exc,
                   log, run, attempts, data2, disk0, raised>>

\* faulty variant of Else: the report is written but the status is left as it was
Else_noStatus ==
    /\ script = "parsers"
    /\ pc = "else"
    /\ disk' = disk \cup {with_suffix(fpath, "xml")}
    /\ wrote' = wrote \cup {with_suffix(fpath, "xml")}
    /\ lastWrite' = <<[path |-> with_suffix(fpath, "xml"), text |-> <<fpath, data[1]>>]>>
    /\ pc' = "finally"
    /\ UNCHANGED <<fpvars, script, no_continue, temp, flist, idx, s, data, exc,
                   status, log, run, attempts, data2, disk0, raised>>

\* lines 194-218: else
Else ==
    /\ script = "parsers"
    /\ pc = "else"
    /\ disk' = disk \cup {with_suffix(fpath, "xml")}
    /\ wrote' = wrote \cup {with_suffix(fpath, "xml")}
    /\ lastWrite' = <<[path |-> with_suffix(fpath, "xml"), text |-> <<fpath, data[1]>>]>>
    /\ status' = "ok"
    /\ pc' = "finally"
    /\ UNCHANGED <<fpvars, script, no_continue, temp, flist, idx, s, data, exc,
                   log, run, attempts, data2, disk0, raised>>

\* the for statement moves on: next item, or the loop ends.  The locals of
\* the finished iteration are never read again before they are rebound.
NextItem ==
    /\ idx' = idx + 1
    /\ pc' = IF idx < Len(flist) THEN "parse" ELSE "done"
    /\ s' = <<>> /\ data' = <<>> /\ data2' = <<>> /\ exc' = <<>> /\ lastWrite' = <<>>

\* faulty variant of Finally: the transient file is not removed
Finally_noRemove ==
    /\ script = "parsers"
    /\ pc = "finally"
    /\ log' = Append(log, ProgressLine)
    /\ NextItem
    /\ UNCHANGED <<fpvars, script, no_continue, disk, temp, flist, status, run,
                   attempts, wrote, disk0, raised>>

\* lines 220-230: finally.  os.remove('io.temp') inside try/except:
\* a missing file is ignored.
Finally ==
    /\ script = "parsers"
    /\ pc = "finally"
    /\ temp' = FALSE
    /\ log' = Append(log, ProgressLine)
    /\ NextItem
    /\ UNCHANGED <<fpvars, script, no_continue, disk, flist, status, run,
                   attempts, wrote, disk0, raised>>

(***************************************************************************)
(* benchmark_PDBParser.py and benchmark_mmCIFParser.py (same loop, other   *)
(* names: temp.pdb / temp.cif, *.ent.gz / *.cif.gz)                        *)
(***************************************************************************)
\* lines 51-58
LStartRun ==
    /\ IsLegacy
    /\ pc = "start"
    /\ flist' = sorted(rglob(disk, "gz"))
    /\ idx' = 1
    /\ pc' = IF flist' = <<>> THEN "done" ELSE "parse"
    /\ run' = run + 1
    /\ log' = <<>>
    /\ attempts' = [f \in rglob(disk, "gz") |-> 0]
    /\ wrote' = {}
    /\ raised' = {}
    /\ disk0' = disk
    /\ s' = <<>> /\ data' = <<>> /\ data2' = <<>> /\ exc' = <<>> /\ lastWrite' = <<>>
    /\ UNCHANGED <<fpvars, script, no_continue, disk, temp, status>>

\* lines 62-79
LParse ==
    /\ IsLegacy
    /\ pc = "parse"
    /\ Enter
    /\ \/ /\ exc' = <<ParseError>>
          /\ pc' = "except"
          /\ UNCHANGED <<s, data>>
       \/ \E st \in BatchCorpus :
            /\ s' = <<st>>
            /\ data' = <<LegacySummarized[st]>>
            /\ pc' = "write"
            /\ UNCHANGED exc
    /\ Raises
    /\ UNCHANGED <<fpvars, script, no_continue, disk, temp, flist, idx, status,
                   lastWrite, log, run, wrote, data2, disk0>>

\* lines 82-87
LWrite ==
    /\ IsLegacy
    /\ pc = "write"
    /\ \/ /\ temp' = TRUE
          /\ pc' = "roundtrip"
          /\ UNCHANGED exc
       \/ /\ temp' \in {temp, TRUE}
          /\ exc' = <<WriteError>>
          /\ pc' = "except"
    /\ Raises
    /\ UNCHANGED <<fpvars, script, no_continue, disk, flist, idx, s, data,
                   status, lastWrite, log, run, attempts, wrote, data2, disk0>>

\* lines 89-95: four bare asserts
LRoundTrip ==
    /\ IsLegacy
    /\ pc = "roundtrip"
    /\ \/ /\ exc' = <<ParseError>>
          /\ pc' = "except"
       \/ \E st2 \in BatchCorpus :
            /\ exc' = IF \A k \in {"models", "chains", "resids", "atoms"} :
                            data[1][k] = LegacySummarized[st2][k]
                      THEN <<>> ELSE <<BareAssertion>>
            /\ pc' = IF exc' = <<>> THEN "else" ELSE "except"
    /\ Raises
    /\ UNCHANGED <<fpvars, script, no_continue, disk, temp, flist, idx, s,
                   data, status, lastWrite, log, run, attempts, wrote, disk0,
                   data2>>

\* lines 97-100
LExcept ==
    /\ IsLegacy
    /\ pc = "except"
    /\ disk' = disk \cup {with_suffix(fpath, "failed")}
    /\ wrote' = wrote \cup {with_suffix(fpath, "failed")}
    /\ lastWrite' = <<[path |-> with_suffix(fpath, "failed"), text |-> FailedText(exc[1])]>>
    /\ pc' = "finally"
    /\ UNCHANGED <<fpvars, script, no_continue, temp, flist, idx, s, data, exc,
                   status, log, run, attempts, data2, disk0, raised>>

\* lines 101-124
LElse ==
    /\ IsLegacy
    /\ pc = "else"
    /\ disk' = disk \cup {with_suffix(fpath, "results.xml")}
    /\ wrote' = wrote \cup {with_suffix(fpath, "results.xml")}
    /\ lastWrite' = <<[path |-> with_suffix(fpath, "results.xml"), text |-> <<fpath, data[1]>>]>>
    /\ pc' = "finally"
    /\ UNCHANGED <<fpvars, script, no_continue, temp, flist, idx, s, data, exc,
                   status, log, run, attempts, data2, disk0, raised>>

\* lines 126-132: finally.  os.remove is not guarded: when the transient
\* file is missing, FileNotFoundError leaves the loop and main().
LFinally ==
    /\ IsLegacy
    /\ pc = "finally"
    /\ IF temp
       THEN /\ temp' = FALSE
            /\ log' = Append(log, ProgressLine)
            /\ NextItem
       ELSE /\ pc' = "aborted"
            /\ UNCHANGED <<temp, log, idx, s, data, data2, exc, lastWrite>>
    /\ UNCHANGED <<fpvars, script, no_continue, disk, flist, status, run,
                   attempts, wrote, disk0, raised>>

Next ==
    \/ StartRun
    \/ Parse
    \/ Write
    \/ RoundTrip
    \/ Except
    \/ Else
    \/ Finally
    \/ LStartRun
    \/ LParse
    \/ LWrite
    \/ LRoundTrip
    \/ LExcept
    \/ LElse
    \/ LFinally

Spec == Init /\ [][Next]_vars

(***************************************************************************)
(* Properties of the batch runs                                            *)
(***************************************************************************)
IsParsers == script = "parsers"
Started == run > 0
Xml(f) == with_suffix(f, "xml")
Failed(f) == with_suffix(f, "failed")
\* items whose iteration is over: their progress line is logged
Finished == {flist[i] : i \in 1..Len(log)}
Mismatch == data # <<>> /\ data2 # <<>> /\ \E k \in Keys : data[1][k] # data2[1][k]

(***************************************************************************)
(* C1: in benchmark_parsers.py no exception raised by the parse,           *)
(* fingerprint, write, re-parse or comparison of an item aborts the batch: *)
(* every item of the queue is attempted exactly once (and the loop ends    *)
(* with all of them attempted), each failing item gets its failure         *)
(* artifact holding the error message and the trace, and every item that   *)
(* did not fail gets its success artifact.                                 *)
(***************************************************************************)
C1_FaultIsolation ==
    (IsParsers /\ Started) =>
        /\ pc # "aborted"
        /\ \A i \in 1..Len(flist) :
              attempts[flist[i]] =
                 IF i < idx \/ (i = idx /\ pc # "parse") THEN 1 ELSE 0
        /\ pc = "done" => idx = Len(flist) + 1 /\ Len(log) = Len(flist)
        /\ \A f \in Finished :
              /\ f \in raised => Failed(f) \in wrote /\ Failed(f) \in disk
              /\ f \notin raised => Xml(f) \in wrote /\ Xml(f) \in disk
        /\ (pc = "finally" /\ exc # <<>>) =>
              /\ fpath \in raised
              /\ lastWrite # <<>>
              /\ lastWrite[1].path = Failed(fpath)
              /\ lastWrite[1].text = <<exc[1].msg, <<"Traceback", exc[1].type, exc[1].msg>>>>
              /\ exc[1].msg.fmt # ""

C1_Witness ==
    /\ IsParsers
    /\ pc = "done"
    /\ Len(flist) = 3
    /\ raised = {flist[2]}
    /\ {Xml(flist[1]), Failed(flist[2]), Xml(flist[3])} \subseteq wrote
    /\ \A i \in 1..3 : attempts[flist[i]] = 1

(***************************************************************************)
(* C2 (as claimed): in a resumed run (no --no-continue) the work queue is  *)
(* exactly the discovered inputs whose stem is the stem of no existing     *)
(* *.xml file, in sorted path order; *.failed files play no part; an input *)
(* whose stem has a success artifact is not processed and none of its      *)
(* artifacts is written during the run.                                    *)
(***************************************************************************)
C2_ResumeQueue ==
    (IsParsers /\ Started /\ ~no_continue) =>
        LET inputs == rglob(disk0, "gz")
            donekeys == {stem(x) : x \in rglob(disk0, "xml")}
            todo == {f \in inputs : stem(f) \notin donekeys}
        IN /\ Range(flist) = todo
           /\ Len(flist) = Cardinality(todo)
           /\ \A i, j \in 1..Len(flist) : i < j => PathLess(flist[i], flist[j])
           /\ \A f \in inputs \ todo :
                 /\ attempts[f] = 0
                 /\ Xml(f) \notin wrote /\ Failed(f) \notin wrote

(***************************************************************************)
(* C3: after the processing of any item the transient round-trip file is   *)
(* absent, whether the item ended in success, in a mismatch or in an       *)
(* exception raised before or after the file was created; so the transient *)
(* file of item i does not exist while item i+1 is being parsed.           *)
(***************************************************************************)
C3_TransientAbsent ==
    /\ (pc \in {"parse", "done"} /\ idx > 1) => ~temp
    /\ pc = "aborted" => ~temp

C3_Witness ==
    /\ IsParsers
    /\ pc = "parse"
    /\ idx = 3
    /\ ~temp
    /\ flist[1] \in raised
    /\ flist[2] \notin raised

(***************************************************************************)
(* C4: in one run of benchmark_parsers.py every item of the work queue     *)
(* ends with exactly one artifact written by that run, <name>.xml or       *)
(* <name>.failed, never both and never neither, and the status of its      *)
(* progress line ('ok' / 'failed') names the artifact that was written.    *)
(***************************************************************************)
C4_ExactlyOneArtifact ==
    (IsParsers /\ Started) =>
        /\ pc = "done" => Len(log) = Len(flist)
        /\ \A i \in 1..Len(log) :
              /\ log[i].path = flist[i]
              /\ log[i].idx = i
              /\ (Xml(flist[i]) \in wrote) # (Failed(flist[i]) \in wrote)
              /\ log[i].status = "ok" <=> Xml(flist[i]) \in wrote
              /\ log[i].status = "failed" <=> Failed(flist[i]) \in wrote
        /\ \A i \in 1..Len(flist) :
              (i > idx \/ (i = idx /\ pc \in {"parse", "write", "roundtrip", "except", "else"}))
                 => (Xml(flist[i]) \notin wrote /\ Failed(flist[i]) \notin wrote)

C4_Witness ==
    /\ IsParsers
    /\ pc = "done"
    /\ Len(log) = 3
    /\ log[1].status = "failed"
    /\ log[2].status = "ok"
    /\ Failed(flist[1]) \in wrote /\ Xml(flist[1]) \notin wrote
    /\ Xml(flist[2]) \in wrote /\ Failed(flist[2]) \notin wrote

(***************************************************************************)
(* C5: in benchmark_parsers.py, whenever the fingerprint of the parsed     *)
(* structure and the fingerprint of the re-parsed structure differ in at   *)
(* least one of the eight fields the item fails: the failure artifact      *)
(* written carries both fingerprints, no success artifact is written for   *)
(* the item, and the loop goes on to the next item.                        *)
(***************************************************************************)
C5_MismatchState ==
    (IsParsers /\ Mismatch) =>
        /\ pc \in {"except", "finally"}
        /\ exc # <<>>
        /\ fpath \in raised
        /\ Xml(fpath) \notin wrote
        /\ pc = "finally" =>
              /\ status = "failed"
              /\ Failed(fpath) \in wrote /\ Failed(fpath) \in disk
              /\ lastWrite[1].path = Failed(fpath)
              /\ lastWrite[1].text[1].args = <<data[1], data2[1]>>

C5_MismatchStep ==
    (IsParsers /\ Mismatch /\ pc = "finally") =>
        /\ idx' = idx + 1
        /\ pc' = IF idx < Len(flist) THEN "parse" ELSE "done"
        /\ log' = Append(log, [idx |-> idx, total |-> Len(flist), path |-> fpath,
                               status |-> "failed"])
        /\ Xml(fpath) \notin wrote'

\* C5: a fingerprint mismatch always ends in the failure artifact with both
\* fingerprints, never in a success artifact, and the loop moves on to the
\* next item (C5_MismatchState in every state, C5_MismatchStep on every step).
C5_MismatchFails == []C5_MismatchState /\ [][C5_MismatchStep]_vars

C5_Witness ==
    /\ IsParsers
    /\ pc = "finally"
    /\ Mismatch
    /\ idx < Len(flist)
    /\ status = "failed"
    /\ Failed(fpath) \in wrote
    /\ lastWrite[1].text[1].args = <<data[1], data2[1]>>

(***************************************************************************)
(* C6 (as claimed): in benchmark_PDBParser.py and benchmark_mmCIFParser.py *)
(* a failure to remove the transient file after an item (the item raised   *)
(* before the file was written) is not fatal: the failure artifact stands  *)
(* and the batch goes on to the next item.                                 *)
(***************************************************************************)
C6_CleanupFailureNotFatal ==
    (IsLegacy /\ Started) =>
        /\ pc # "aborted"
        /\ pc = "done" => \A i \in 1..Len(flist) : attempts[flist[i]] = 1

(***************************************************************************)
(* C10 (as claimed): in a resumed run of benchmark_parsers.py a discovered *)
(* input is left out of the work queue only if the success artifact of     *)
(* that same file (same directory, same base name) exists.                 *)
(***************************************************************************)
C10_SkipOnlyOwnArtifact ==
    (IsParsers /\ Started /\ ~no_continue) =>
        \A f \in rglob(disk0, "gz") :
            f \notin Range(flist) => Xml(f) \in disk0

(***************************************************************************)
(* C11 (as claimed): after any sequence of runs of benchmark_parsers.py    *)
(* over the same folder no input has both <name>.xml and <name>.failed on  *)
(* disk at the same time.                                                  *)
(***************************************************************************)
C11_NeverBoth ==
    IsParsers =>
        \A f \in rglob(disk, "gz") : ~(Xml(f) \in disk /\ Failed(f) \in disk)

(***************************************************************************)
(* C11 (amended): a run of benchmark_parsers.py never removes an artifact  *)
(* and never writes both <name>.xml and <name>.failed for one input; an    *)
(* input has both on disk only when at least one of the two was left by an *)
(* earlier run (a stale .failed beside a later .xml after a resumed run,   *)
(* or either order under --no-continue).                                   *)
(***************************************************************************)
C11_BothOnlyAcrossRuns ==
    (IsParsers /\ Started) =>
        /\ disk0 \subseteq disk
        /\ \A f \in rglob(disk, "gz") :
              /\ ~(Xml(f) \in wrote /\ Failed(f) \in wrote)
              /\ (Xml(f) \in disk /\ Failed(f) \in disk) =>
                    (Xml(f) \in disk0 \/ Failed(f) \in disk0)

C11_Witness ==
    /\ IsParsers
    /\ run = 2
    /\ ~no_continue
    /\ pc = "done"
    /\ \E f \in rglob(disk, "gz") :
          /\ Failed(f) \in disk0 /\ Xml(f) \notin disk0
          /\ Xml(f) \in wrote /\ Failed(f) \notin wrote
          /\ Xml(f) \in disk /\ Failed(f) \in disk

====
